---------------------------- MODULE Spec2Model ----------------------------
(***************************************************************************)
(* A model of download.py: the identifier extractor, the file downloader,  *)
(* the recursive Drive walker, the Drive entry point and the Classroom     *)
(* course enumerator.                                                      *)
(*                                                                         *)
(* Strings the code inspects character by character (the argument of       *)
(* extract_file_id_from_input) are sequences of one-character strings.     *)
(* Mime types are records [type, sub] where sub is the sequence of the     *)
(* dot-separated parts of the subtype, so that startswith, split('/') and  *)
(* replace('vnd.', '') are computed and not assumed.                       *)
(***************************************************************************)
EXTENDS Integers, Sequences, FiniteSets, TLC

VARIABLES
    input_str,   \* extract_file_id_from_input: the argument
    extracted,   \* extract_file_id_from_input: the value returned
    applied,     \* whether extract_file_id_from_input has been applied
    drive,       \* the remote file store: mime type and child pages per node
    fsFiles,     \* local paths at which a file exists
    fsDirs,      \* local paths at which a directory exists
    stack,       \* the call stack of download_recursive / download_file
    summary,     \* summary_dict of the walk in progress
    ret,         \* the value the last download_file call returned
    phase,       \* where download_google_drive_files is
    root,        \* the root_file_id the entry point is given
    planned,     \* how many times the user runs the entry point
    run,         \* how many times download_google_drive_files was started
    reported,    \* the summaries logged, one per run that reached its summary
    raised,      \* an exception left the outermost download_recursive call
    faults,      \* how many remote or local calls have raised so far
    fetches,     \* log: metadata fetches of download_recursive
    mediaCalls,  \* log: get_media / export_media requests built
    opens,       \* log: local files opened for writing
    finished,    \* log: download_file calls that found or wrote the file
    classroom,   \* the remote Classroom: courses, topic pages, material pages
    course_index,\* the --course-index argument, or the interactive answer
    cstate,      \* where download_classroom_materials / _single_course are
    clog         \* log: courses entered and ended, materials processed

extractVars == <<input_str, extracted, applied>>

walkVars == <<drive, fsFiles, fsDirs, stack, summary, ret, raised, faults,
              fetches, mediaCalls, opens, finished>>

driveVars == <<phase, root, planned, run, reported>>

courseVars == <<classroom, course_index, cstate, clog>>

vars == <<extractVars, walkVars, driveVars, courseVars>>

\* What the walker leaves alone, and what the Drive entry point leaves alone.
notWalkVars == <<extractVars, driveVars, courseVars>>
notDriveVars == <<extractVars, courseVars>>

-----------------------------------------------------------------------------
(* extract_file_id_from_input                                              *)

\* The character class [a-zA-Z0-9_-] of the three patterns.
IdChars ==
    {"a","b","c","d","e","f","g","h","i","j","k","l","m",
     "n","o","p","q","r","s","t","u","v","w","x","y","z",
     "A","B","C","D","E","F","G","H","I","J","K","L","M",
     "N","O","P","Q","R","S","T","U","V","W","X","Y","Z",
     "0","1","2","3","4","5","6","7","8","9","_","-"}

\* The literal prefixes of the first two patterns and the {25,} of the third.
PatD == <<"/","d","/">>
PatFolders == <<"/","f","o","l","d","e","r","s","/">>
MinBareLen == 25

\* Python's None. A capture group of these patterns is never empty, so the
\* empty sequence is free to stand for it (the callers test truthiness).
None == <<>>

\* The end of the greedy run [a-zA-Z0-9_-]* that starts at position i.
RECURSIVE RunEnd(_, _)
RunEnd(s, i) ==
    IF i <= Len(s) /\ s[i] \in IdChars THEN RunEnd(s, i + 1) ELSE i - 1

\* lit([a-zA-Z0-9_-]+) matches at position i of s.
MatchesAt(lit, s, i) ==
    /\ i + Len(lit) <= Len(s)
    /\ SubSeq(s, i, i + Len(lit) - 1) = lit
    /\ s[i + Len(lit)] \in IdChars

\* re.search(lit([a-zA-Z0-9_-]+), s).group(1): the leftmost match, the
\* capture taken greedily; None when there is no match.
SearchPrefixed(lit, s) ==
    LET starts == {i \in 1..Len(s) : MatchesAt(lit, s, i)}
    IN  IF starts = {} THEN None
        ELSE LET i == CHOOSE k \in starts : \A m \in starts : k <= m
                 b == i + Len(lit)
             IN  SubSeq(s, b, RunEnd(s, b))

\* re.search(^([a-zA-Z0-9_-]{25,})$, s).group(1). Without re.MULTILINE, $
\* matches at the end of the string and also just before a newline that
\* ends the string.
SearchBare(s) ==
    LET e == RunEnd(s, 1)
    IN  IF /\ e >= MinBareLen
           /\ \/ e = Len(s)
              \/ e = Len(s) - 1 /\ s[Len(s)] = "\n"
        THEN SubSeq(s, 1, e)
        ELSE None

\* patterns[k] applied with re.search.
SearchPattern(k, s) ==
    CASE k = 1 -> SearchPrefixed(PatD, s)
      [] k = 2 -> SearchPrefixed(PatFolders, s)
      [] k = 3 -> SearchBare(s)

\* A plausible slip: the '/folders/' pattern listed before the '/d/' one.
PatternOrderSwapped == <<2, 1, 3>>

\* The order in which the for loop tries the patterns.
PatternOrder == <<1, 2, 3>>

RECURSIVE FirstMatch(_, _)
FirstMatch(order, s) ==
    IF order = <<>> THEN None
    ELSE LET m == SearchPattern(Head(order), s)
         IN  IF m # None THEN m ELSE FirstMatch(Tail(order), s)

extract_file_id_from_input(s) == FirstMatch(PatternOrder, s)

-----------------------------------------------------------------------------
(* Mime types and local paths                                              *)

Mime(type, sub) == [type |-> type, sub |-> sub]

FolderMime == Mime("application", <<"vnd", "google-apps", "folder">>)
DocumentMime == Mime("application", <<"vnd", "google-apps", "document">>)
SpreadsheetMime == Mime("application", <<"vnd", "google-apps", "spreadsheet">>)
PresentationMime == Mime("application", <<"vnd", "google-apps", "presentation">>)
FormMime == Mime("application", <<"vnd", "google-apps", "form">>)
RawMime == Mime("image", <<"png">>)
PdfMime == Mime("application", <<"pdf">>)
SheetMime ==
    Mime("application",
         <<"vnd", "openxmlformats-officedocument", "spreadsheetml", "sheet">>)
SlidesMime ==
    Mime("application",
         <<"vnd", "openxmlformats-officedocument", "presentationml",
           "presentation">>)

\* The mime types the remote store serves in this model.
Mimes ==
    {FolderMime, DocumentMime, SpreadsheetMime, PresentationMime, FormMime,
     RawMime}

\* mime_type.startswith('application/vnd.google-apps.')
IsNative(m) ==
    /\ m.type = "application"
    /\ Len(m.sub) >= 3
    /\ m.sub[1] = "vnd"
    /\ m.sub[2] = "google-apps"

\* A plausible slip: export_formats.get(mime_type, 'application/pdf').
ExportTargetDefaultPdf(m) ==
    CASE m = DocumentMime -> PdfMime
      [] m = SpreadsheetMime -> SheetMime
      [] m = PresentationMime -> SlidesMime
      [] OTHER -> PdfMime

\* export_formats.get(mime_type): the export target, or None.
ExportTarget(m) ==
    CASE m = DocumentMime -> PdfMime
      [] m = SpreadsheetMime -> SheetMime
      [] m = PresentationMime -> SlidesMime
      [] OTHER -> None

\* parts.replace('vnd.', '') on the dot-separated parts of a subtype: a part
\* 'vnd' that a dot follows disappears with its dot.
RECURSIVE ReplaceVnd(_)
ReplaceVnd(parts) ==
    IF Len(parts) <= 1 THEN parts
    ELSE IF Head(parts) = "vnd" THEN ReplaceVnd(Tail(parts))
         ELSE <<Head(parts)>> \o ReplaceVnd(Tail(parts))

\* export_mime_type.split('/')[-1].replace('vnd.', '')
FileExtension(m) == ReplaceVnd(m.sub)

\* A local path is the sequence of its components below DOWNLOAD_PATH; a
\* component is <<name, extension parts>>. Remote names are the node ids:
\* pairwise distinct, and free of surrounding blanks (strip() is the identity).
DOWNLOAD_PATH == <<>>
NoExt == <<>>

\* os.path.join(current_folder.strip(), file_name.strip())
Join(folder, name) == Append(folder, <<name, NoExt>>)

\* f"{file_path}.{file_extension}"
WithExtension(path, ext) ==
    LET last == path[Len(path)]
    IN  [path EXCEPT ![Len(path)] = <<last[1], last[2] \o ext>>]

\* os.path.exists(path)
Exists(path) == path \in fsFiles \/ path \in fsDirs

\* os.makedirs(path, exist_ok=True): the path and every prefix of it.
MakeDirs(path) == fsDirs \cup {SubSeq(path, 1, k) : k \in 0..Len(path)}

-----------------------------------------------------------------------------
(* The call stack                                                          *)

NoName == 0

Frame(fn, id, folder, path, depth) ==
    [fn |-> fn, pc |-> "start", id |-> id, folder |-> folder,
     file_name |-> NoName, path |-> path, arg_path |-> path,
     page_token |-> 0, items |-> <<>>, k |-> 1, chunk |-> 0, depth |-> depth]

Top == stack[Len(stack)]
Running(fn, pc) == stack # <<>> /\ Top.fn = fn /\ Top.pc = pc
Pop == SubSeq(stack, 1, Len(stack) - 1)
SetTop(f) == [stack EXCEPT ![Len(stack)] = f]

\* summary_dict as created when the caller passes none.
FreshSummary ==
    [total_folders |-> 0, total_files |-> 0, failed_downloads |-> <<>>]

Failure(label, node, path, reason) ==
    [label |-> label, node |-> node, path |-> path, reason |-> reason]

\* A plausible slip: the failure is logged and not recorded.
NotRecorded(entry) == summary

Failed(entry) ==
    [summary EXCEPT !.failed_downloads = Append(@, entry)]

\* What a remote call of download_recursive can raise is googleapiclient's
\* HttpError or anything else (a transport error, a timeout, an expired
\* credential); download_file treats every exception alike.

MaxFaults == 1
MaxChunks == 1

CanFail == faults < MaxFaults

\* files().get(fileId=id): a node the store does not hold answers 404.
Known(id) == id \in 1..drive.n

-----------------------------------------------------------------------------
(* download_file                                                           *)

\* A plausible slip: the handler leaves the partial file in place.
HandlerKeeps(path) == fsFiles

\* if os.path.exists(file_path): os.remove(file_path)
HandlerRemoves(path) == IF Exists(path) THEN fsFiles \ {path} ELSE fsFiles

\* The except clause of download_file: record (file_path, str(e)), delete
\* the file at file_path if there is one, return False.
DF_Handler(f, reason) ==
    /\ summary' = Failed(Failure("path", f.id, f.path, reason))
    /\ fsFiles' = HandlerRemoves(f.path)
    /\ ret' = FALSE
    /\ stack' = Pop

\* A plausible slip: a skipped file reported as not downloaded.
SkipReturnFalse == FALSE

\* The value returned when the target path already exists.
SkipReturn == TRUE

\* The target path exists: nothing is fetched.
DF_Skip ==
    /\ Running("download_file", "start")
    /\ Exists(Top.path)
    /\ ret' = SkipReturn
    /\ finished' = Append(finished, [run |-> run, node |-> Top.id,
                                     path |-> Top.path, how |-> "skipped"])
    /\ stack' = Pop
    /\ UNCHANGED <<notWalkVars, drive, fsFiles, fsDirs, summary, raised, faults, fetches,
                   mediaCalls, opens>>

\* files().get(...).execute() raises: any exception reaches the handler.
DF_MetadataRaises ==
    /\ Running("download_file", "start")
    /\ ~Exists(Top.path)
    /\ \/ /\ ~Known(Top.id)
          /\ DF_Handler(Top, "HttpError")
          /\ UNCHANGED faults
       \/ /\ Known(Top.id)
          /\ CanFail
          /\ DF_Handler(Top, "Exception")
          /\ faults' = faults + 1
    /\ UNCHANGED <<notWalkVars, drive, fsDirs, raised, fetches, mediaCalls,
                   opens, finished>>

\* A native type with an export target: the request is built and the
\* extension is appended to file_path.
DF_ExportRequest ==
    /\ Running("download_file", "start")
    /\ ~Exists(Top.path)
    /\ Known(Top.id)
    /\ IsNative(drive.mime[Top.id])
    /\ ExportTarget(drive.mime[Top.id]) # None
    /\ mediaCalls' = Append(mediaCalls,
            [run |-> run, node |-> Top.id, op |-> "export_media",
             path |-> Top.path])
    /\ stack' = SetTop([Top EXCEPT
            !.path = WithExtension(@, FileExtension(ExportTarget(drive.mime[Top.id]))),
            !.pc = "open"])
    /\ UNCHANGED <<notWalkVars, drive, fsFiles, fsDirs, summary, ret, raised, faults,
                   fetches, opens, finished>>

\* A native type without an export target: recorded, nothing transferred.
DF_Unsupported ==
    /\ Running("download_file", "start")
    /\ ~Exists(Top.path)
    /\ Known(Top.id)
    /\ IsNative(drive.mime[Top.id])
    /\ ExportTarget(drive.mime[Top.id]) = None
    /\ summary' = Failed(Failure("path", Top.id, Top.path, "unsupported"))
    /\ ret' = FALSE
    /\ stack' = Pop
    /\ UNCHANGED <<notWalkVars, drive, fsFiles, fsDirs, raised, faults, fetches,
                   mediaCalls, opens, finished>>

\* Any other type: the raw bytes are requested.
DF_MediaRequest ==
    /\ Running("download_file", "start")
    /\ ~Exists(Top.path)
    /\ Known(Top.id)
    /\ ~IsNative(drive.mime[Top.id])
    /\ mediaCalls' = Append(mediaCalls,
            [run |-> run, node |-> Top.id, op |-> "get_media",
             path |-> Top.path])
    /\ stack' = SetTop([Top EXCEPT !.pc = "open"])
    /\ UNCHANGED <<notWalkVars, drive, fsFiles, fsDirs, summary, ret, raised, faults,
                   fetches, opens, finished>>

\* open(file_path, 'wb'): the file exists from here on, empty.
DF_Open ==
    /\ Running("download_file", "open")
    /\ fsFiles' = fsFiles \cup {Top.path}
    /\ opens' = Append(opens, [run |-> run, node |-> Top.id,
                               path |-> Top.path])
    /\ stack' = SetTop([Top EXCEPT !.pc = "chunk"])
    /\ UNCHANGED <<notWalkVars, drive, fsDirs, summary, ret, raised, faults, fetches,
                   mediaCalls, finished>>

\* open raises (an OSError): the handler runs.
DF_OpenRaises ==
    /\ Running("download_file", "open")
    /\ CanFail
    /\ DF_Handler(Top, "OSError")
    /\ faults' = faults + 1
    /\ UNCHANGED <<notWalkVars, drive, fsDirs, raised, fetches, mediaCalls,
                   opens, finished>>

\* downloader.next_chunk() returns with done = False.
DF_Chunk ==
    /\ Running("download_file", "chunk")
    /\ Top.chunk < MaxChunks
    /\ stack' = SetTop([Top EXCEPT !.chunk = @ + 1])
    /\ UNCHANGED <<notWalkVars, drive, fsFiles, fsDirs, summary, ret, raised, faults,
                   fetches, mediaCalls, opens, finished>>

\* downloader.next_chunk() returns with done = True: return True.
DF_ChunkDone ==
    /\ Running("download_file", "chunk")
    /\ ret' = TRUE
    /\ finished' = Append(finished, [run |-> run, node |-> Top.id,
                                     path |-> Top.path, how |-> "transferred"])
    /\ stack' = Pop
    /\ UNCHANGED <<notWalkVars, drive, fsFiles, fsDirs, summary, raised, faults, fetches,
                   mediaCalls, opens>>

\* downloader.next_chunk() raises in mid-stream: the handler runs.
DF_ChunkRaises ==
    /\ Running("download_file", "chunk")
    /\ CanFail
    /\ DF_Handler(Top, "Exception")
    /\ faults' = faults + 1
    /\ UNCHANGED <<notWalkVars, drive, fsDirs, raised, fetches, mediaCalls,
                   opens, finished>>

download_file ==
    \/ DF_Skip \/ DF_MetadataRaises \/ DF_ExportRequest \/ DF_Unsupported
    \/ DF_MediaRequest \/ DF_Open \/ DF_OpenRaises \/ DF_Chunk
    \/ DF_ChunkDone \/ DF_ChunkRaises

-----------------------------------------------------------------------------
(* download_recursive                                                      *)

Fetched(f, got) ==
    fetches' = Append(fetches, [run |-> run, node |-> f.id,
                                folder |-> f.folder,
                                depth |-> f.depth, got |-> got])

\* An exception no except clause of download_recursive names leaves every
\* pending download_recursive call.
Propagate == stack' = <<>> /\ raised' = TRUE

\* The metadata says folder: create it locally, count it, start listing.
DR_GetFolder ==
    /\ Running("download_recursive", "start")
    /\ Known(Top.id)
    /\ drive.mime[Top.id] = FolderMime
    /\ Fetched(Top, "ok")
    /\ fsDirs' = MakeDirs(Join(Top.folder, Top.id))
    /\ summary' = [summary EXCEPT !.total_folders = @ + 1]
    /\ stack' = SetTop([Top EXCEPT !.file_name = Top.id,
                                   !.path = Join(Top.folder, Top.id),
                                   !.page_token = 0,
                                   !.pc = "list"])
    /\ UNCHANGED <<notWalkVars, drive, fsFiles, ret, raised, faults, mediaCalls, opens,
                   finished>>

\* The metadata says file: call download_file.
DR_GetFile ==
    /\ Running("download_recursive", "start")
    /\ Known(Top.id)
    /\ drive.mime[Top.id] # FolderMime
    /\ Fetched(Top, "ok")
    /\ stack' = Append(SetTop([Top EXCEPT !.file_name = Top.id,
                                          !.pc = "file"]),
                       Frame("download_file", Top.id, Top.folder,
                             Join(Top.folder, Top.id), Top.depth))
    /\ UNCHANGED <<notWalkVars, drive, fsFiles, fsDirs, summary, ret, raised, faults,
                   mediaCalls, opens, finished>>

\* The metadata fetch raises HttpError: file_name is still None.
DR_GetHttpError ==
    /\ Running("download_recursive", "start")
    /\ \/ ~Known(Top.id) /\ UNCHANGED faults
       \/ Known(Top.id) /\ CanFail /\ faults' = faults + 1
    /\ Fetched(Top, "HttpError")
    /\ summary' = Failed(Failure("id", Top.id, <<>>, "HttpError"))
    /\ stack' = Pop
    /\ UNCHANGED <<notWalkVars, drive, fsFiles, fsDirs, ret, raised, mediaCalls, opens,
                   finished>>

\* The metadata fetch raises something else.
DR_GetRaises ==
    /\ Running("download_recursive", "start")
    /\ Known(Top.id)
    /\ CanFail
    /\ faults' = faults + 1
    /\ Fetched(Top, "OtherError")
    /\ Propagate
    /\ UNCHANGED <<notWalkVars, drive, fsFiles, fsDirs, summary, ret, mediaCalls, opens,
                   finished>>

\* The pages of children the store serves for a folder.
PagesOf(id) == drive.pages[id]

\* files().list(q, pageToken=page_token): one page of children.
DR_List ==
    /\ Running("download_recursive", "list")
    /\ stack' = SetTop([Top EXCEPT
            !.items = IF PagesOf(Top.id) = <<>> THEN <<>>
                      ELSE PagesOf(Top.id)[Top.page_token + 1],
            !.k = 1,
            !.pc = "items"])
    /\ UNCHANGED <<notWalkVars, drive, fsFiles, fsDirs, summary, ret, raised, faults,
                   fetches, mediaCalls, opens, finished>>

\* The listing raises HttpError: recorded under the folder's name.
DR_ListHttpError ==
    /\ Running("download_recursive", "list")
    /\ CanFail
    /\ faults' = faults + 1
    /\ summary' = Failed(Failure("name", Top.id, <<>>, "HttpError"))
    /\ stack' = Pop
    /\ UNCHANGED <<notWalkVars, drive, fsFiles, fsDirs, ret, raised, fetches, mediaCalls,
                   opens, finished>>

\* The listing raises something else.
DR_ListRaises ==
    /\ Running("download_recursive", "list")
    /\ CanFail
    /\ faults' = faults + 1
    /\ Propagate
    /\ UNCHANGED <<notWalkVars, drive, fsFiles, fsDirs, summary, ret, fetches, mediaCalls,
                   opens, finished>>

\* The depth of calls the interpreter allows; no tree of the model is as
\* deep, a store with a folder inside itself is.
MaxDepth == 6

\* for item in items: download_recursive(item['id'], folder_path, summary_dict)
DR_Recurse ==
    /\ Running("download_recursive", "items")
    /\ Top.k <= Len(Top.items)
    /\ Top.depth < MaxDepth
    /\ stack' = Append(SetTop([Top EXCEPT !.k = @ + 1]),
                       Frame("download_recursive", Top.items[Top.k], Top.path,
                             <<>>, Top.depth + 1))
    /\ UNCHANGED <<notWalkVars, drive, fsFiles, fsDirs, summary, ret, raised, faults,
                   fetches, mediaCalls, opens, finished>>

\* A walker that reads one page and never the token.
HasNextPageNever(f) == FALSE

\* The call of line 204 at the interpreter's recursion limit: RecursionError
\* is not an HttpError and leaves every pending call.
DR_RecursionError ==
    /\ Running("download_recursive", "items")
    /\ Top.k <= Len(Top.items)
    /\ Top.depth >= MaxDepth
    /\ Propagate
    /\ UNCHANGED <<notWalkVars, drive, fsFiles, fsDirs, summary, ret, faults,
                   fetches, mediaCalls, opens, finished>>

\* results.get('nextPageToken'): the page index of the next page, if any.
HasNextPage(f) == f.page_token + 1 < Len(PagesOf(f.id))

\* The page is done and a nextPageToken came with it.
DR_NextPage ==
    /\ Running("download_recursive", "items")
    /\ Top.k > Len(Top.items)
    /\ HasNextPage(Top)
    /\ stack' = SetTop([Top EXCEPT !.page_token = @ + 1, !.pc = "list"])
    /\ UNCHANGED <<notWalkVars, drive, fsFiles, fsDirs, summary, ret, raised, faults,
                   fetches, mediaCalls, opens, finished>>

\* The page is done and no nextPageToken came with it: return summary_dict.
DR_FolderDone ==
    /\ Running("download_recursive", "items")
    /\ Top.k > Len(Top.items)
    /\ ~HasNextPage(Top)
    /\ stack' = Pop
    /\ UNCHANGED <<notWalkVars, drive, fsFiles, fsDirs, summary, ret, raised, faults,
                   fetches, mediaCalls, opens, finished>>

\* download_file has returned: count the file if it returned True.
DR_FileDone ==
    /\ Running("download_recursive", "file")
    /\ summary' = IF ret THEN [summary EXCEPT !.total_files = @ + 1]
                  ELSE summary
    /\ stack' = Pop
    /\ UNCHANGED <<notWalkVars, drive, fsFiles, fsDirs, ret, raised, faults, fetches,
                   mediaCalls, opens, finished>>

download_recursive ==
    \/ DR_GetFolder \/ DR_GetFile \/ DR_GetHttpError \/ DR_GetRaises
    \/ DR_List \/ DR_ListHttpError \/ DR_ListRaises
    \/ DR_Recurse \/ DR_NextPage \/ DR_FolderDone \/ DR_FileDone

-----------------------------------------------------------------------------
(* download_google_drive_files                                             *)

MaxRuns == 2

\* The root of every remote tree of the model.
RootId == 1

\* A plausible slip: the root subtracted without looking at the count.
ExcludeRootAlways(n) == n - 1

\* if drive_summary['total_folders'] >= 1: drive_summary['total_folders'] -= 1
ExcludeRoot(n) == IF n >= 1 THEN n - 1 ELSE n

\* os.makedirs(root_folder); download_recursive(root_file_id, root_folder)
DG_Start ==
    /\ phase = "idle"
    /\ run < planned
    /\ run' = run + 1
    /\ phase' = "walking"
    /\ fsDirs' = MakeDirs(DOWNLOAD_PATH)
    /\ summary' = FreshSummary
    /\ raised' = FALSE
    /\ stack' = <<Frame("download_recursive", root, DOWNLOAD_PATH, <<>>, 1)>>
    /\ UNCHANGED <<notDriveVars, drive, fsFiles, ret, faults, fetches,
                   mediaCalls, opens, finished, reported, root, planned>>

\* download_recursive returned: the root is taken off the folder count, the
\* root's name is fetched and the summary is logged.
DG_Summary ==
    /\ phase = "walking"
    /\ stack = <<>>
    /\ ~raised
    /\ Known(root)
    /\ summary' = [summary EXCEPT !.total_folders = ExcludeRoot(@)]
    /\ reported' = Append(reported,
            [run |-> run,
             total_folders |-> summary'.total_folders,
             total_files |-> summary'.total_files,
             failed |-> Len(summary'.failed_downloads)])
    /\ phase' = "idle"
    /\ UNCHANGED <<notDriveVars, drive, fsFiles, fsDirs, stack, ret, raised,
                   faults, fetches, mediaCalls, opens, finished, run, root,
                   planned>>

\* The fetch of the root's name raises: except Exception logs it, and no
\* summary is logged.
DG_NameRaises ==
    /\ phase = "walking"
    /\ stack = <<>>
    /\ ~raised
    /\ \/ ~Known(root) /\ UNCHANGED faults
       \/ Known(root) /\ CanFail /\ faults' = faults + 1
    /\ summary' = [summary EXCEPT !.total_folders = ExcludeRoot(@)]
    /\ phase' = "idle"
    /\ UNCHANGED <<notDriveVars, drive, fsFiles, fsDirs, stack, ret, raised,
                   fetches, mediaCalls, opens, finished, run, reported, root,
                   planned>>

\* An exception left download_recursive: except Exception logs it.
DG_Caught ==
    /\ phase = "walking"
    /\ raised
    /\ phase' = "idle"
    /\ UNCHANGED <<notDriveVars, walkVars, run, reported, root, planned>>

download_google_drive_files ==
    \/ DG_Start \/ DG_Summary \/ DG_NameRaises \/ DG_Caught

-----------------------------------------------------------------------------
(* download_classroom_materials, list_courses, get_course_materials        *)

\* Names of local folders are numbers, like the remote names of the Drive
\* nodes: course k is named CourseBase + k, topic t is named TopicBase + t,
\* and TopicBase itself is the name 'No Topic'.
CourseBase == 100
TopicBase == 200
NoTopicName == TopicBase
CourseName(k) == CourseBase + k
TopicName(t) == TopicBase + t

\* material.get('topicId') of a material without the key.
NoTopicId == 0

\* The Drive ids that texts of the model carry, and the nodes they name; any
\* other id names no node of the store.
IdOfFile == <<"A","b","_","-","9">>
NodeOfId(chars, n) == IF chars = IdOfFile THEN 2 ELSE n + 1

Digits == <<"0","1","2","3","4","5","6","7","8","9">>

\* int(token): an optional sign and one digit (longer numerals are not in
\* the model); anything else raises ValueError.
IsNumeral(tok) ==
    \/ Len(tok) = 1 /\ \E d \in DOMAIN Digits : Digits[d] = tok[1]
    \/ /\ Len(tok) = 2
       /\ tok[1] \in {"-", "+"}
       /\ \E d \in DOMAIN Digits : Digits[d] = tok[2]

IntOf(tok) ==
    LET c == tok[Len(tok)]
        v == (CHOOSE d \in DOMAIN Digits : Digits[d] = c) - 1
    IN  IF tok[1] = "-" THEN 0 - v ELSE v

RECURSIVE Flat(_)
Flat(pages) == IF pages = <<>> THEN <<>> ELSE Head(pages) \o Flat(Tail(pages))

RECURSIVE Reverse(_)
Reverse(s) == IF s = <<>> THEN <<>> ELSE Reverse(Tail(s)) \o <<Head(s)>>

\* response.get(key, []) of the first response of a listing.
FirstPage(pages) == IF pages = <<>> THEN <<>> ELSE pages[1]

\* What one un-paginated list(...).execute() returns.
Listed(pages) == FirstPage(pages)

\* courses[i] of Python for a list of n items: position (1-based) of the
\* item, or 0 when IndexError is raised.
PyIndex(i, n) ==
    IF i >= 0 /\ i < n THEN i + 1
    ELSE IF i < 0 /\ i >= 0 - n THEN n + i + 1
    ELSE 0

NoCourse == 0

CourseIdleState ==
    [cpc |-> "start", courses |-> <<>>, pending |-> <<>>, all |-> FALSE,
     outcome |-> "", course |-> NoCourse, spc |-> "idle",
     topic_dict |-> <<>>, remaining |-> <<>>, mid |-> 0, atts |-> <<>>,
     topic_folder |-> <<>>, course_summary |-> FreshSummary]

EmptyLog ==
    [entered |-> <<>>, ended |-> <<>>, processed |-> <<>>, walks |-> <<>>]

\* The materials of the course, in the order the service lists them.
AllMaterials == Flat(classroom.materialPages)

\* try: ... except HttpError: return []  -- list_courses follows every
\* nextPageToken, then the argument is parsed.
DC_ListCourses ==
    /\ cstate.cpc = "start"
    /\ LET courses == Flat(classroom.coursePages)
           toks == course_index.tokens
           bad == \E k \in DOMAIN toks : ~IsNumeral(toks[k])
       IN  cstate' =
             IF courses = <<>>
             THEN [cstate EXCEPT !.cpc = "done", !.outcome = "no courses"]
             ELSE IF course_index.mode = "all"
             THEN [cstate EXCEPT !.cpc = "loop", !.courses = courses,
                                 !.all = TRUE,
                                 !.pending = [k \in DOMAIN courses |-> k]]
             ELSE IF bad
             THEN [cstate EXCEPT !.cpc = "done", !.courses = courses,
                                 !.outcome = "ValueError"]
             ELSE [cstate EXCEPT !.cpc = "loop", !.courses = courses,
                                 !.pending = [k \in DOMAIN toks |-> IntOf(toks[k])]]
    /\ UNCHANGED <<extractVars, walkVars, driveVars, classroom, course_index,
                   clog>>

\* courses().list raises HttpError: list_courses returns [].
DC_ListCoursesHttpError ==
    /\ cstate.cpc = "start"
    /\ CanFail
    /\ faults' = faults + 1
    /\ cstate' = [cstate EXCEPT !.cpc = "done", !.outcome = "no courses"]
    /\ UNCHANGED <<extractVars, driveVars, classroom, course_index, clog,
                   drive, fsFiles, fsDirs, stack, summary, ret, raised,
                   fetches, mediaCalls, opens, finished>>

\* index == 0 at the interactive prompt: download_all_courses(), break.
DC_AllCourses ==
    /\ cstate.cpc = "loop"
    /\ cstate.pending # <<>>
    /\ ~cstate.all
    /\ course_index.mode = "interactive"
    /\ Head(cstate.pending) = 0
    /\ cstate' = [cstate EXCEPT !.all = TRUE,
                                !.pending = [k \in DOMAIN cstate.courses |-> k]]
    /\ UNCHANGED <<extractVars, walkVars, driveVars, classroom, course_index,
                   clog>>

\* The subscript of courses[index - 1], or of the loop over all courses.
Chosen ==
    IF cstate.all THEN Head(cstate.pending)
    ELSE PyIndex(Head(cstate.pending) - 1, Len(cstate.courses))

\* chosen_course = courses[index - 1]; download_single_course(name, id)
DC_NextCourse ==
    /\ cstate.cpc = "loop"
    /\ cstate.pending # <<>>
    /\ cstate.all \/ course_index.mode = "arg" \/ Head(cstate.pending) # 0
    /\ Chosen # 0
    /\ cstate' = [cstate EXCEPT !.cpc = "course", !.spc = "topics",
                                !.course = cstate.courses[Chosen],
                                !.pending = Tail(@),
                                !.topic_dict = <<>>,
                                !.course_summary = FreshSummary]
    /\ clog' = [clog EXCEPT !.entered = Append(@, cstate.courses[Chosen])]
    /\ UNCHANGED <<extractVars, walkVars, driveVars, classroom, course_index>>

\* courses[index - 1] raises IndexError: the message is printed, return.
DC_IndexError ==
    /\ cstate.cpc = "loop"
    /\ cstate.pending # <<>>
    /\ cstate.all \/ course_index.mode = "arg" \/ Head(cstate.pending) # 0
    /\ Chosen = 0
    /\ cstate' = [cstate EXCEPT !.cpc = "done", !.outcome = "IndexError"]
    /\ UNCHANGED <<extractVars, walkVars, driveVars, classroom, course_index,
                   clog>>

\* The loop over the indices is over.
DC_Done ==
    /\ cstate.cpc = "loop"
    /\ cstate.pending = <<>>
    /\ cstate' = [cstate EXCEPT !.cpc = "done", !.outcome = "done"]
    /\ UNCHANGED <<extractVars, walkVars, driveVars, classroom, course_index,
                   clog>>

download_classroom_materials ==
    \/ DC_ListCourses \/ DC_ListCoursesHttpError \/ DC_AllCourses
    \/ DC_NextCourse \/ DC_IndexError \/ DC_Done

-----------------------------------------------------------------------------
(* download_single_course                                                  *)

\* A course work material as the service returns it; a key that is absent
\* has its has_ flag FALSE. An attachment is [driveFile |-> node], with
\* node = 0 for an attachment without the driveFile key (a link, a video).
Material(topicId, has_materials, materials, has_description, description, has_title, title) ==
    [topicId |-> topicId,
     has_materials |-> has_materials, materials |-> materials,
     has_description |-> has_description, description |-> description,
     has_title |-> has_title, title |-> title]

NoDriveFile == 0

EndCourse(outcome) ==
    /\ cstate' = [cstate EXCEPT !.cpc = "loop", !.spc = "idle"]
    /\ clog' = [clog EXCEPT !.ended = Append(@,
            [course |-> cstate.course, outcome |-> outcome,
             topic_dict |-> cstate.topic_dict,
             summary |-> cstate.course_summary])]

InCourse(spc) == cstate.cpc = "course" /\ cstate.spc = spc

CourseFolder == Join(DOWNLOAD_PATH, CourseName(cstate.course))

\* os.makedirs(course_folder); topics().list(courseId).execute(); the
\* dictionary of the topics of that one response; 'No topics found' ends
\* the course.
SC_Topics ==
    /\ InCourse("topics")
    /\ fsDirs' = MakeDirs(CourseFolder)
    /\ LET topics == Listed(classroom.topicPages)
       IN  IF topics = <<>>
           THEN EndCourse("no topics")
           ELSE /\ cstate' = [cstate EXCEPT
                      !.spc = "materials",
                      !.topic_dict = [k \in DOMAIN topics |-> topics[k]]]
                /\ UNCHANGED clog
    /\ UNCHANGED <<extractVars, driveVars, classroom, course_index, drive,
                   fsFiles, stack, summary, ret, raised, faults, fetches,
                   mediaCalls, opens, finished>>

\* The topic listing raises: except Exception ends the course.
SC_TopicsRaises ==
    /\ InCourse("topics")
    /\ CanFail
    /\ faults' = faults + 1
    /\ fsDirs' = MakeDirs(CourseFolder)
    /\ EndCourse("exception")
    /\ UNCHANGED <<extractVars, driveVars, classroom, course_index, drive,
                   fsFiles, stack, summary, ret, raised, fetches, mediaCalls,
                   opens, finished>>

\* get_course_materials: the materials of one response; 'No materials
\* found' ends the course; else materials.reverse() and a fresh summary.
SC_Materials ==
    /\ InCourse("materials")
    /\ LET materials == Listed(classroom.materialPages)
       IN  IF materials = <<>>
           THEN EndCourse("no materials")
           ELSE /\ cstate' = [cstate EXCEPT
                      !.spc = "each",
                      !.remaining = Reverse([k \in DOMAIN materials |-> k]),
                      !.course_summary = FreshSummary]
                /\ UNCHANGED clog
    /\ UNCHANGED <<extractVars, walkVars, driveVars, classroom, course_index>>

\* get_course_materials catches the exception and returns [].
SC_MaterialsRaises ==
    /\ InCourse("materials")
    /\ CanFail
    /\ faults' = faults + 1
    /\ EndCourse("materials not fetched")
    /\ UNCHANGED <<extractVars, driveVars, classroom, course_index, drive,
                   fsFiles, fsDirs, stack, summary, ret, raised, fetches,
                   mediaCalls, opens, finished>>

\* The material the loop is at, and topic_dict.get(topic_id, 'No Topic').
ThisMaterial == AllMaterials[Head(cstate.remaining)]

TopicFolderOf(m) ==
    Join(CourseFolder,
         IF \E k \in DOMAIN cstate.topic_dict : cstate.topic_dict[k] = m.topicId
         THEN TopicName(m.topicId)
         ELSE NoTopicName)

\* The head of one iteration of the loop over the materials.
BeginMaterial(atts) ==
    /\ fsDirs' = MakeDirs(TopicFolderOf(ThisMaterial))
    /\ cstate' = [cstate EXCEPT !.spc = "attachments",
                                !.mid = Head(cstate.remaining),
                                !.remaining = Tail(@),
                                !.atts = atts,
                                !.topic_folder = TopicFolderOf(ThisMaterial)]
    /\ clog' = [clog EXCEPT !.processed = Append(@,
            [course |-> cstate.course, mid |-> Head(cstate.remaining),
             topic_folder |-> TopicFolderOf(ThisMaterial)])]

\* One unit of the work of a material: a Drive id to walk, or the reason
\* that goes to failed_downloads.
Unit(driveFile, reason) == [driveFile |-> driveFile, reason |-> reason]

AttachmentUnits(atts) ==
    [k \in DOMAIN atts |-> Unit(atts[k].driveFile, "No drive file found")]

CourseFailed(reason) ==
    [cstate.course_summary EXCEPT !.failed_downloads =
        Append(@, Failure("material", cstate.mid, <<>>, reason))]

\* if 'materials' in material: the loop over its attachments starts.
SC_MaterialAttachments ==
    /\ InCourse("each")
    /\ cstate.remaining # <<>>
    /\ ThisMaterial.has_materials
    /\ BeginMaterial(AttachmentUnits(ThisMaterial.materials))
    /\ UNCHANGED <<extractVars, driveVars, classroom, course_index, drive,
                   fsFiles, stack, summary, ret, raised, faults, fetches,
                   mediaCalls, opens, finished>>

\* The text the identifier is looked for in: the description if the key is
\* there, else the title if it is not None.
HasText(m) == ~m.has_materials /\ (m.has_description \/ m.has_title)
TextOf(m) == IF m.has_description THEN m.description ELSE m.title

\* elif 'description' in material / elif title is not None: the identifier
\* extracted from the text is handed to download_recursive like the
\* driveFile of an attachment.
SC_MaterialText ==
    /\ InCourse("each")
    /\ cstate.remaining # <<>>
    /\ HasText(ThisMaterial)
    /\ extract_file_id_from_input(TextOf(ThisMaterial)) # None
    /\ BeginMaterial(<<Unit(
            NodeOfId(extract_file_id_from_input(TextOf(ThisMaterial)),
                     drive.n), "")>>)
    /\ UNCHANGED <<extractVars, driveVars, classroom, course_index, drive,
                   fsFiles, stack, summary, ret, raised, faults, fetches,
                   mediaCalls, opens, finished>>

\* No identifier in the text: 'Could not extract file ID' is recorded.
SC_MaterialTextNoId ==
    /\ InCourse("each")
    /\ cstate.remaining # <<>>
    /\ HasText(ThisMaterial)
    /\ extract_file_id_from_input(TextOf(ThisMaterial)) = None
    /\ BeginMaterial(<<Unit(NoDriveFile, "Could not extract file ID")>>)
    /\ UNCHANGED <<extractVars, driveVars, classroom, course_index, drive,
                   fsFiles, stack, summary, ret, raised, faults, fetches,
                   mediaCalls, opens, finished>>

\* else: 'No materials or description or Drive file found' is recorded.
SC_MaterialNothing ==
    /\ InCourse("each")
    /\ cstate.remaining # <<>>
    /\ ~ThisMaterial.has_materials
    /\ ~HasText(ThisMaterial)
    /\ BeginMaterial(<<Unit(NoDriveFile,
            "No materials or description or Drive file found")>>)
    /\ UNCHANGED <<extractVars, driveVars, classroom, course_index, drive,
                   fsFiles, stack, summary, ret, raised, faults, fetches,
                   mediaCalls, opens, finished>>

\* recursive_dict = download_recursive(drive_service, id, topic_folder)
SC_Walk ==
    /\ InCourse("attachments")
    /\ cstate.atts # <<>>
    /\ Head(cstate.atts).driveFile # NoDriveFile
    /\ stack' = <<Frame("download_recursive", Head(cstate.atts).driveFile,
                        cstate.topic_folder, <<>>, 1)>>
    /\ summary' = FreshSummary
    /\ raised' = FALSE
    /\ cstate' = [cstate EXCEPT !.spc = "walking", !.atts = Tail(@)]
    /\ clog' = [clog EXCEPT !.walks = Append(@,
            [course |-> cstate.course, mid |-> cstate.mid,
             entry |-> Len(clog.entered),
             node |-> Head(cstate.atts).driveFile])]
    /\ UNCHANGED <<extractVars, driveVars, classroom, course_index, drive,
                   fsFiles, fsDirs, ret, faults, fetches, mediaCalls, opens,
                   finished>>

\* Nothing to walk: the failure is recorded in the course's summary.
SC_NoDriveFile ==
    /\ InCourse("attachments")
    /\ cstate.atts # <<>>
    /\ Head(cstate.atts).driveFile = NoDriveFile
    /\ cstate' = [cstate EXCEPT !.atts = Tail(@),
                                !.course_summary =
                                    CourseFailed(Head(cstate.atts).reason)]
    /\ UNCHANGED <<extractVars, walkVars, driveVars, classroom, course_index,
                   clog>>

\* for i in summary_dict: summary_dict[i] += recursive_dict[i]
SC_Merge ==
    /\ InCourse("walking")
    /\ stack = <<>>
    /\ ~raised
    /\ cstate' = [cstate EXCEPT
          !.spc = "attachments",
          !.course_summary =
              [total_folders |-> @.total_folders + summary.total_folders,
               total_files |-> @.total_files + summary.total_files,
               failed_downloads |->
                   @.failed_downloads \o summary.failed_downloads]]
    /\ UNCHANGED <<extractVars, walkVars, driveVars, classroom, course_index,
                   clog>>

\* An exception left download_recursive: except Exception ends the course.
SC_Raised ==
    /\ InCourse("walking")
    /\ raised
    /\ EndCourse("exception")
    /\ UNCHANGED <<extractVars, walkVars, driveVars, classroom, course_index>>

\* The attachments of the material are done: next material.
SC_MaterialDone ==
    /\ InCourse("attachments")
    /\ cstate.atts = <<>>
    /\ cstate' = [cstate EXCEPT !.spc = "each"]
    /\ UNCHANGED <<extractVars, walkVars, driveVars, classroom, course_index,
                   clog>>

\* The loop over the materials is over: the summary is logged.
SC_Summary ==
    /\ InCourse("each")
    /\ cstate.remaining = <<>>
    /\ EndCourse("summary")
    /\ UNCHANGED <<extractVars, walkVars, driveVars, classroom, course_index>>

download_single_course ==
    \/ SC_Topics \/ SC_TopicsRaises \/ SC_Materials \/ SC_MaterialsRaises
    \/ SC_MaterialAttachments \/ SC_MaterialText \/ SC_MaterialTextNoId
    \/ SC_MaterialNothing \/ SC_Walk \/ SC_NoDriveFile \/ SC_Merge
    \/ SC_Raised \/ SC_MaterialDone \/ SC_Summary

-----------------------------------------------------------------------------
(* The remote stores the walker is run on: every tree of at most MaxNodes  *)
(* nodes, node 1 the root, each other node the child of a folder with a    *)
(* smaller id, children listed in pages of MaxPage or fewer items.         *)

MaxNodes == 3
MaxRerunNodes == 2
MaxPage == 2

RECURSIVE Ascending(_)
Ascending(S) ==
    IF S = {} THEN <<>>
    ELSE LET m == CHOOSE x \in S : \A y \in S : x <= y
         IN  <<m>> \o Ascending(S \ {m})

RECURSIVE InPages(_, _)
InPages(seq, size) ==
    IF Len(seq) = 0 THEN <<>>
    ELSE IF Len(seq) <= size THEN <<seq>>
    ELSE <<SubSeq(seq, 1, size)>> \o InPages(SubSeq(seq, size + 1, Len(seq)), size)

Parents(n, mime) ==
    {p \in [2..n -> 1..n] :
        \A i \in 2..n : p[i] < i /\ mime[p[i]] = FolderMime}

DriveOf(n, mime, parent, size) ==
    [n |-> n,
     mime |-> mime,
     pages |-> [f \in 1..n |->
                  InPages(Ascending({i \in 2..n : parent[i] = f}), size)]]

Drives(maxNodes) ==
    UNION { UNION { { DriveOf(n, mime, parent, size) :
                        parent \in Parents(n, mime), size \in 1..MaxPage } :
                    mime \in [1..n -> Mimes] } :
            n \in 1..maxNodes }

NoDrive == [n |-> 0, mime |-> <<>>, pages |-> <<>>]

-----------------------------------------------------------------------------
(* Specifications                                                          *)

ExtractIdle ==
    /\ input_str = <<>>
    /\ extracted = None
    /\ applied = FALSE

WalkerIdle ==
    /\ fsFiles = {}
    /\ fsDirs = {}
    /\ stack = <<>>
    /\ summary = FreshSummary
    /\ ret = FALSE
    /\ raised = FALSE
    /\ faults = 0
    /\ fetches = <<>>
    /\ mediaCalls = <<>>
    /\ opens = <<>>
    /\ finished = <<>>

DriveIdle ==
    /\ phase = "idle"
    /\ run = 0
    /\ reported = <<>>

NoClassroom ==
    [coursePages |-> <<>>, topicPages |-> <<>>, materialPages |-> <<>>]

NoIndex == [mode |-> "all", tokens |-> <<>>]

CourseIdle ==
    /\ classroom = NoClassroom
    /\ course_index = NoIndex
    /\ cstate = [CourseIdleState EXCEPT !.cpc = "done"]
    /\ clog = EmptyLog

\* The root the user names: the root of the tree, or an id the store does
\* not hold.
Roots == {RootId, drive.n + 1}

\* The user runs download_google_drive_files once on a tree of at most
\* MaxNodes nodes, or up to MaxRuns times on the same tree of at most
\* MaxRerunNodes nodes; the destination is empty at first and is kept
\* from one run to the next.
Init ==
    /\ planned \in 1..MaxRuns
    /\ drive \in Drives(IF planned = 1 THEN MaxNodes ELSE MaxRerunNodes)
    /\ root \in Roots
    /\ WalkerIdle
    /\ DriveIdle
    /\ ExtractIdle
    /\ CourseIdle

Next == download_file \/ download_recursive \/ download_google_drive_files

Spec == Init /\ [][Next]_vars

-----------------------------------------------------------------------------
(* Inputs of the extractor: concatenations of at most MaxPieces pieces.    *)

MaxPieces == 4

RECURSIVE Rep(_, _)
Rep(c, n) == IF n = 0 THEN <<>> ELSE <<c>> \o Rep(c, n - 1)

Pieces ==
    { PatD, PatFolders,
      <<"A","b","_","-","9">>,
      <<"d">>,
      <<"/">>,
      <<"?">>,
      <<"\n">>,
      Rep("x", MinBareLen - 1),
      Rep("Z", MinBareLen) }

RECURSIVE Concat(_)
Concat(ps) == IF ps = <<>> THEN <<>> ELSE Head(ps) \o Concat(Tail(ps))

Inputs ==
    { Concat(ps) : ps \in UNION { [1..n -> Pieces] : n \in 0..MaxPieces } }

InitExtract ==
    /\ input_str \in Inputs
    /\ extracted = None
    /\ applied = FALSE
    /\ drive = NoDrive
    /\ root = RootId
    /\ planned = 0
    /\ WalkerIdle
    /\ DriveIdle
    /\ CourseIdle

\* One call of extract_file_id_from_input(input_str).
Extract ==
    /\ ~applied
    /\ extracted' = extract_file_id_from_input(input_str)
    /\ applied' = TRUE
    /\ UNCHANGED <<input_str, walkVars, driveVars, courseVars>>

NextExtract == Extract

SpecExtract == InitExtract /\ [][NextExtract]_vars

-----------------------------------------------------------------------------
(* download_classroom_materials on bounded classrooms                       *)

MaxCourses == 2
MaxTokens == 2
MaxMaterials == 2

\* The Drive behind the attachments: a folder 1 whose children, a plain
\* file 2, a form 3 and a document 4, are listed on two pages.
CourseDrive ==
    [n |-> 4,
     mime |-> <<FolderMime, RawMime, FormMime, DocumentMime>>,
     pages |-> <<<< <<2, 3>>, <<4>> >>, <<>>, <<>>, <<>>>>]

FileOfCourse == 2
FolderOfCourse == 1

Attached(topicId, atts) ==
    Material(topicId, TRUE, atts, FALSE, <<>>, FALSE, <<>>)
Described(topicId, description) ==
    Material(topicId, FALSE, <<>>, TRUE, description, FALSE, <<>>)
Titled(topicId, title) ==
    Material(topicId, FALSE, <<>>, FALSE, <<>>, TRUE, title)

UrlOfFile == <<"/", "d", "/">> \o IdOfFile
NoIdText == <<"?">>

\* The shapes of a material under one topic.
Shapes(topicId) ==
    { Attached(topicId, <<[driveFile |-> FileOfCourse]>>),
      Attached(topicId, <<[driveFile |-> FolderOfCourse]>>),
      Attached(topicId, <<[driveFile |-> NoDriveFile]>>),
      Attached(topicId, <<>>),
      Described(topicId, UrlOfFile),
      Described(topicId, NoIdText),
      Material(topicId, FALSE, <<>>, TRUE, NoIdText, TRUE, UrlOfFile),
      Titled(topicId, Rep("Z", MinBareLen)),
      Titled(topicId, NoIdText),
      Material(topicId, FALSE, <<>>, FALSE, <<>>, FALSE, <<>>) }

SeqsUpTo(S, n) == UNION { [1..k -> S] : k \in 0..n }

Pagings(seq) == { InPages(seq, size) : size \in 1..MaxPage }

\* topicId of a material: absent, one of the two topics a course of the
\* model can have, or an id no topic has.
TopicIds == {NoTopicId, 1, 2, 9}

TopicListings == { <<>>, << <<1>> >>, << <<1, 2>> >>, << <<1>>, <<2>> >> }

IndexTokens == { <<"0">>, <<"1">>, <<"2">>, <<"3">>, <<"-", "1">>, <<"x">> }

PlainClassroom(n, size) ==
    [coursePages |-> InPages([k \in 1..n |-> k], size),
     topicPages |-> << <<1>> >>,
     materialPages |-> << <<Attached(1, <<[driveFile |-> FileOfCourse]>>)>> >>]

\* Any choice of courses out of at most MaxCourses, each with the same one
\* topic and one material.
IndexFamily ==
    /\ \E n \in 0..MaxCourses, size \in 1..MaxPage :
          classroom = PlainClassroom(n, size)
    /\ \/ course_index = NoIndex
       \/ \E mode \in {"arg", "interactive"},
             toks \in SeqsUpTo(IndexTokens, MaxTokens) \ {<<>>} :
             course_index = [mode |-> mode, tokens |-> toks]

OneCourse == [mode |-> "arg", tokens |-> << <<"1">> >>]

\* One course with any listing of topics and any paging of materials that
\* attach the same file under any topic id.
TopicFamily ==
    /\ course_index = OneCourse
    /\ \E topics \in TopicListings,
          ms \in SeqsUpTo({ Attached(t, <<[driveFile |-> FileOfCourse]>>) :
                              t \in TopicIds }, MaxMaterials),
          size \in 1..MaxPage :
          classroom = [coursePages |-> << <<1>> >>,
                       topicPages |-> topics,
                       materialPages |-> InPages(ms, size)]

\* One course with one topic and materials of any shape on one page.
ShapeFamily ==
    /\ course_index = OneCourse
    /\ \E ms \in SeqsUpTo(Shapes(1), MaxMaterials) \ {<<>>} :
          classroom = [coursePages |-> << <<1>> >>,
                       topicPages |-> << <<1>> >>,
                       materialPages |-> <<ms>>]

InitCourse ==
    /\ IndexFamily \/ TopicFamily \/ ShapeFamily
    /\ cstate = CourseIdleState
    /\ clog = EmptyLog
    /\ drive = CourseDrive
    /\ root = RootId
    /\ planned = 0
    /\ WalkerIdle
    /\ DriveIdle
    /\ ExtractIdle

NextCourse ==
    \/ download_file
    \/ download_recursive
    \/ download_classroom_materials
    \/ download_single_course

SpecCourse == InitCourse /\ [][NextCourse]_vars

-----------------------------------------------------------------------------
(* Claim C7, stated on the input string and the value returned.            *)

AllId(c) == \A k \in 1..Len(c) : c[k] \in IdChars

\* lit occurs at position k of s with an identifier character after it.
OccursAt(lit, s, k) ==
    /\ k + Len(lit) <= Len(s)
    /\ \A q \in 1..Len(lit) : s[k + q - 1] = lit[q]
    /\ s[k + Len(lit)] \in IdChars

HasCaptureAfter(lit, s) == \E k \in 1..Len(s) : OccursAt(lit, s, k)

\* c is what follows the leftmost such occurrence of lit: the longest run of
\* identifier characters there.
IsCaptureAfter(lit, s, c) ==
    \E i \in 1..Len(s) :
        LET b == i + Len(lit)
        IN  /\ OccursAt(lit, s, i)
            /\ \A k \in 1..(i - 1) : ~OccursAt(lit, s, k)
            /\ Len(c) >= 1
            /\ b + Len(c) - 1 <= Len(s)
            /\ \A q \in 1..Len(c) : s[b + q - 1] = c[q]
            /\ AllId(c)
            /\ b + Len(c) <= Len(s) => s[b + Len(c)] \notin IdChars

\* The whole string is one token of at least 25 identifier characters.
IsBareToken(s) == Len(s) >= MinBareLen /\ AllId(s)

\* The same, with one newline allowed after the token (what $ accepts).
IsBareTokenNl(s) ==
    \/ IsBareToken(s)
    \/ Len(s) >= 1 /\ s[Len(s)] = "\n" /\ IsBareToken(SubSeq(s, 1, Len(s) - 1))

BareTokenOf(s) ==
    IF s # <<>> /\ s[Len(s)] = "\n" THEN SubSeq(s, 1, Len(s) - 1) ELSE s

\* The priority order, with `bare(s)` saying when the third pattern matches
\* and `tok(s)` what it captures.
PriorityRule(bare(_), tok(_)) ==
    applied =>
        /\ HasCaptureAfter(PatD, input_str)
              => IsCaptureAfter(PatD, input_str, extracted)
        /\ ~HasCaptureAfter(PatD, input_str)
              /\ HasCaptureAfter(PatFolders, input_str)
              => IsCaptureAfter(PatFolders, input_str, extracted)
        /\ ~HasCaptureAfter(PatD, input_str)
              /\ ~HasCaptureAfter(PatFolders, input_str)
              => extracted = (IF bare(input_str) THEN tok(input_str) ELSE None)
        /\ IsBareToken(input_str) => extracted = input_str
        /\ AllId(input_str) /\ Len(input_str) < MinBareLen => extracted = None

Same(s) == s

\* C7 (as stated): the first of '/d/<id>', '/folders/<id>' and a whole-string
\* token of at least 25 identifier characters that matches gives the value
\* returned; None is returned when none matches; a bare token of 25 or more
\* characters is returned unchanged.
C7_AsStated == PriorityRule(IsBareToken, Same)

\* C7 (amended): as above, where the third pattern also accepts the token
\* followed by one newline that ends the string, and returns the token
\* without that newline.
C7_ExtractPriority == PriorityRule(IsBareTokenNl, BareTokenOf)

\* C7 witness: '/folders/<a>' occurs before '/d/<b>' in the input, a # b, and
\* the call returned b.
C7_Witness ==
    /\ applied
    /\ \E a \in {<<"A","b","_","-","9">>}, b \in {<<"d">>} :
          /\ input_str = PatFolders \o a \o PatD \o b
          /\ extracted = b

-----------------------------------------------------------------------------
(* Claims C1 to C6: the walker, the downloader and the Drive entry point.  *)

InCall(fn) == stack # <<>> /\ Top.fn = fn
Returns == stack' = Pop
FailedList == summary.failed_downloads
ChildrenOf(id) ==
    UNION { {PagesOf(id)[p][k] : k \in DOMAIN PagesOf(id)[p]} :
            p \in DOMAIN PagesOf(id) }

\* The step is the metadata fetch of a child (a call below the root call)
\* and the fetch fails.
ChildFetchFails ==
    /\ Running("download_recursive", "start")
    /\ Top.depth >= 2
    /\ Len(fetches') = Len(fetches) + 1
    /\ fetches'[Len(fetches')].got # "ok"

\* The failed child's call returns to its parent, which stays where it was,
\* with one entry for the child added and nothing else changed.
IsolatedFailure ==
    /\ ~raised'
    /\ Returns
    /\ Len(FailedList') = Len(FailedList) + 1
    /\ FailedList'[Len(FailedList')].node = Top.id
    /\ SubSeq(FailedList', 1, Len(FailedList)) = FailedList
    /\ summary'.total_folders = summary.total_folders
    /\ summary'.total_files = summary.total_files

\* A folder's call returns after its last page: each of its children, on
\* every page, has had its metadata fetched in this run.
SiblingsWalked ==
    (Running("download_recursive", "items") /\ Returns)
        => \A c \in ChildrenOf(Top.id) :
              \E i \in DOMAIN fetches :
                  /\ fetches[i].run = run
                  /\ fetches[i].node = c
                  /\ fetches[i].depth = Top.depth + 1

\* C1: when the metadata fetch of a child fails, the failure does not reach
\* the caller, the child's subtree is not entered, the failure list gains
\* exactly one entry for the child, and every sibling is still walked.
C1_PartialFailureIsolation ==
    [][(ChildFetchFails => IsolatedFailure) /\ SiblingsWalked]_vars

\* C1, for the failures download_recursive names in its except clause: the
\* same, when the child's metadata fetch fails with HttpError.
C1_HttpErrorIsolation ==
    [][((ChildFetchFails /\ fetches'[Len(fetches')].got = "HttpError")
            => IsolatedFailure) /\ SiblingsWalked]_vars

\* C1 witness: a second child is fetched after its elder sibling's fetch
\* failed with HttpError.
C1_Witness ==
    \E i, j \in DOMAIN fetches :
        /\ i < j
        /\ fetches[i].run = fetches[j].run
        /\ fetches[i].depth = 2 /\ fetches[j].depth = 2
        /\ fetches[i].got = "HttpError"
        /\ fetches[j].got = "ok"

\* C2: a download_file call that returns False leaves no file at the path
\* it was writing to (the extension-suffixed path of an export included)
\* nor at the path it was given, has appended exactly one (path, reason)
\* pair, and no exception leaves the call; a call that returns True appends
\* none.
C2_FailedTransferCleanup ==
    [][InCall("download_file") =>
          /\ ~raised'
          /\ Len(stack') >= Len(stack) - 1
          /\ IF Returns /\ ~ret'
             THEN /\ Top.path \notin fsFiles'
                  /\ Top.arg_path \notin fsFiles'
                  /\ FailedList' = Append(FailedList,
                         Failure("path", Top.id, Top.path,
                                 FailedList'[Len(FailedList')].reason))
             ELSE FailedList' = FailedList]_vars

\* C2 witness: an export was opened for writing at its suffixed path, the
\* transfer raised in mid-stream, the failure is on the list and no file is
\* at that path.
C2_Witness ==
    \E i \in DOMAIN FailedList, j \in DOMAIN opens :
        /\ FailedList[i].label = "path"
        /\ FailedList[i].reason = "Exception"
        /\ opens[j].run = run
        /\ opens[j].path = FailedList[i].path
        /\ FailedList[i].path[Len(FailedList[i].path)][2] # NoExt
        /\ FailedList[i].path \notin fsFiles
        /\ ~ret

\* C3: once a node was transferred successfully into the destination, no
\* later run builds a get_media or export_media request for it or opens its
\* local file for writing again.
C3_SkipOnExists ==
    \A i \in DOMAIN finished :
        finished[i].how = "transferred" =>
            /\ \A j \in DOMAIN mediaCalls :
                  ~(mediaCalls[j].node = finished[i].node
                    /\ mediaCalls[j].run > finished[i].run)
            /\ \A j \in DOMAIN opens :
                  ~(opens[j].node = finished[i].node
                    /\ opens[j].run > finished[i].run)

TransferredIn(r) ==
    Cardinality({i \in DOMAIN finished :
                    finished[i].run = r /\ finished[i].how = "transferred"})
SkippedIn(r) ==
    Cardinality({i \in DOMAIN finished :
                    finished[i].run = r /\ finished[i].how = "skipped"})

\* The first run logged its summary and recorded no failure.
FirstRunComplete ==
    \E j \in DOMAIN reported : reported[j].run = 1 /\ reported[j].failed = 0

\* C4 (as stated): in a run after a first run that downloaded every file,
\* the files already present add nothing to total_files: it counts the
\* files transferred in that run only.
C4_SkippedNotCounted ==
    \A i \in DOMAIN reported :
        (reported[i].run > 1 /\ FirstRunComplete)
            => reported[i].total_files = TransferredIn(reported[i].run)

\* C4 (amended): in such a run every file already present adds one to
\* total_files, like a file transferred: total_files is the number of files
\* skipped plus the number of files transferred in that run.
C4_SkippedCounted ==
    \A i \in DOMAIN reported :
        (reported[i].run > 1 /\ FirstRunComplete)
            => reported[i].total_files =
                  SkippedIn(reported[i].run) + TransferredIn(reported[i].run)

\* C4 witness: a second run, after a complete first run, skipped a file and
\* logged a summary that counts it.
C4_Witness ==
    \E i \in DOMAIN reported :
        /\ reported[i].run = 2
        /\ FirstRunComplete
        /\ SkippedIn(2) >= 1
        /\ reported[i].total_files >= 1

\* The folders whose metadata was fetched below the root in run r.
FoldersBelowRoot(r) ==
    Cardinality({i \in DOMAIN fetches :
                    /\ fetches[i].run = r
                    /\ fetches[i].depth >= 2
                    /\ fetches[i].got = "ok"
                    /\ drive.mime[fetches[i].node] = FolderMime})

\* C5: the total_folders a run logs is the number of folders walked below
\* the root; it is 0 when the root is a single file, and never negative.
C5_FolderCountExcludesRoot ==
    \A i \in DOMAIN reported :
        /\ reported[i].total_folders = FoldersBelowRoot(reported[i].run)
        /\ reported[i].total_folders >= 0
        /\ drive.mime[root] # FolderMime => reported[i].total_folders = 0

\* C5 witness: a root folder with two subfolders logged total_folders = 2.
C5_Witness ==
    /\ Known(root)
    /\ drive.mime[root] = FolderMime
    /\ \E i \in DOMAIN reported : reported[i].total_folders = 2

\* A Google-native type other than the three that have an export target.
UnmappedNative(m) ==
    /\ m.type = "application"
    /\ Len(m.sub) = 3 /\ m.sub[1] = "vnd" /\ m.sub[2] = "google-apps"
    /\ m.sub[3] \notin {"document", "spreadsheet", "presentation"}

\* The extension the local path of a node of type m gets.
ExpectedExtension(m) ==
    CASE m = DocumentMime -> <<"pdf">>
      [] m = SpreadsheetMime ->
            <<"openxmlformats-officedocument", "spreadsheetml", "sheet">>
      [] m = PresentationMime ->
            <<"openxmlformats-officedocument", "presentationml",
              "presentation">>
      [] OTHER -> NoExt

\* C6: for a native type without export target download_file returns False,
\* appends exactly one entry, builds no get_media/export_media request and
\* creates no local file; for the three mapped types (and raw files) a
\* completed transfer has written the file at the target path with the
\* export format's extension appended (none for a raw file).
C6_UnsupportedNativeType ==
    [][/\ (/\ Running("download_file", "start")
           /\ ~Exists(Top.path)
           /\ Known(Top.id)
           /\ UnmappedNative(drive.mime[Top.id]))
          => /\ Returns
             /\ ~ret'
             /\ Len(FailedList') = Len(FailedList) + 1
             /\ mediaCalls' = mediaCalls
             /\ opens' = opens
             /\ fsFiles' = fsFiles
       /\ (InCall("download_file") /\ Returns /\ ret' /\ Top.pc # "start")
          => /\ Top.path \in fsFiles'
             /\ Top.path = [Top.arg_path EXCEPT ![Len(Top.arg_path)] =
                   <<Top.id, ExpectedExtension(drive.mime[Top.id])>>]
      ]_vars

\* C6 witness: a form was refused as unsupported and a spreadsheet of the
\* same folder was written with its export extension.
C6_Witness ==
    /\ \E i \in DOMAIN FailedList : FailedList[i].reason = "unsupported"
    /\ \E p \in fsFiles :
          p[Len(p)][2] =
              <<"openxmlformats-officedocument", "spreadsheetml", "sheet">>


-----------------------------------------------------------------------------
(* Claims about download_classroom_materials                                *)

Courses == Flat(classroom.coursePages)
Topics == Flat(classroom.topicPages)

Ended == { clog.ended[k] : k \in DOMAIN clog.ended }
Processed == { clog.processed[k] : k \in DOMAIN clog.processed }
Mapping(e) == { e.topic_dict[k] : k \in DOMAIN e.topic_dict }

\* The folder a material belongs to under the mapping the course built.
FolderUnder(e, m) ==
    Join(Join(DOWNLOAD_PATH, CourseName(e.course)),
         IF m.topicId \in Mapping(e) THEN TopicName(m.topicId)
         ELSE NoTopicName)

ProcessedIn(e, k) ==
    \E p \in Processed :
        /\ p.course = e.course
        /\ p.mid = k
        /\ p.topic_folder = FolderUnder(e, AllMaterials[k])

\* C8: when no remote call fails, every material the materials listing
\* returns for a course that has ended was processed, under the folder of its
\* topic or under 'No Topic' if its topicId is absent or unmapped, whatever
\* the topic mapping, a course without topics included.
C8_AllMaterialsProcessed ==
    faults = 0 =>
        \A e \in Ended :
            \A k \in DOMAIN Listed(classroom.materialPages) :
                ProcessedIn(e, k)

\* C9: when no remote call fails, a course whose materials loop has ended
\* has every topic of every page of the topic listing in its mapping and
\* every material of every page of the material listing processed.
C9_AllPagesFollowed ==
    faults = 0 =>
        \A e \in Ended :
            e.outcome = "summary" =>
                /\ Mapping(e) = { Topics[k] : k \in DOMAIN Topics }
                /\ \A k \in DOMAIN AllMaterials : ProcessedIn(e, k)

Indices == [k \in DOMAIN course_index.tokens |-> IntOf(course_index.tokens[k])]
InRange(i) == i >= 1 /\ i <= Len(Courses)

\* The courses at the indices that precede the first index outside 1..N.
RECURSIVE NamedCourses(_)
NamedCourses(idx) ==
    IF idx = <<>> \/ ~InRange(Head(idx)) THEN <<>>
    ELSE <<Courses[Head(idx)]>> \o NamedCourses(Tail(idx))

\* C10: with --course-index a list of integers, once the function has
\* returned the courses entered are those at the named 1-based positions, in
\* the order given, none for an index outside 1..N, and such an index is
\* reported as invalid input.
C10_IndexedCourses ==
    ( /\ course_index.mode = "arg"
      /\ cstate.cpc = "done"
      /\ cstate.outcome \in {"done", "IndexError"} ) =>
        /\ clog.entered = NamedCourses(Indices)
        /\ (\E k \in DOMAIN Indices : ~InRange(Indices[k])) =>
               cstate.outcome = "IndexError"

-----------------------------------------------------------------------------
(* Claims about the listing loop and the accounting of download_recursive   *)

\* The calls of download_recursive on node c in the current run, each
\* named by the position of its metadata fetch in the log.
CallsOn(c) == { i \in DOMAIN fetches : fetches[i].run = run /\ fetches[i].node = c }

\* The call on top of the stack is a folder's and returns in this step.
FolderReturns ==
    /\ Running("download_recursive", "items")
    /\ stack' = Pop
    /\ ~raised'

\* Every child of every page was recursed into once, in page order, with the
\* folder's local path as current_folder.
RecursedOnce(f) ==
    LET children == Flat(PagesOf(f.id))
    IN  /\ \A k \in DOMAIN children :
              /\ Cardinality(CallsOn(children[k])) = 1
              /\ \A i \in CallsOn(children[k]) :
                    /\ fetches[i].folder = f.path
                    /\ fetches[i].depth = f.depth + 1
        /\ \A k, l \in DOMAIN children :
              k < l => \A i \in CallsOn(children[k]), j \in CallsOn(children[l]) :
                          i < j

\* C11: when the call of download_recursive on a folder returns after its
\* listing loop, whatever the number of pages of the listing, every child of
\* every page has been recursed into exactly once, in the order listed, with
\* the folder's local path as destination; the one summary is shared.
C11_PaginationComplete ==
    [][FolderReturns => RecursedOnce(Top)]_vars

\* A folder whose listing spans two pages has been walked to its last page,
\* every child called, and is about to return.
C11_Witness ==
    /\ Running("download_recursive", "items")
    /\ Len(PagesOf(Top.id)) >= 2
    /\ Top.page_token + 1 = Len(PagesOf(Top.id))
    /\ Top.k > Len(Top.items)
    /\ \A c \in 1..drive.n :
          (\E k \in DOMAIN Flat(PagesOf(Top.id)) : Flat(PagesOf(Top.id))[k] = c)
              => CallsOn(c) # {}

\* The program is sequential: a step that can be taken is taken.
SpecLive == Spec /\ WF_vars(Next)

Walking(r) == phase = "walking" /\ run = r
WalkEnded(r) == Walking(r) /\ stack = <<>>
WalkReturned(r) == WalkEnded(r) /\ ~raised

\* C12: on a finite store in which no folder is its own descendant and
\* every listing ends, a walk that has started ends by returning the
\* summary, whatever remote calls fail.
C12_WalkReturnsSummary ==
    \A r \in 1..MaxRuns : Walking(r) ~> WalkReturned(r)

\* C12, termination alone: a walk that has started ends, by returning the
\* summary or by an exception that leaves download_recursive.
C12_WalkTerminates ==
    \A r \in 1..MaxRuns : Walking(r) ~> WalkEnded(r)

\* A store in which folder 1 holds a file 2 and a folder 3, and folder 3
\* holds folder 1.
CyclicDrive ==
    [n |-> 3,
     mime |-> <<FolderMime, RawMime, FolderMime>>,
     pages |-> << << <<2, 3>> >>, <<>>, << <<1>> >> >>]

InitCycle ==
    /\ planned = 1
    /\ drive = CyclicDrive
    /\ root = RootId
    /\ WalkerIdle
    /\ DriveIdle
    /\ ExtractIdle
    /\ CourseIdle

NextCycle == Next \/ DR_RecursionError

SpecCycle == InitCycle /\ [][NextCycle]_vars /\ WF_vars(NextCycle)

\* C12, the folder inside itself, as stated: the walk never ends.
C12_CycleNeverEnds == [](~WalkEnded(1))

\* C12, the folder inside itself: the walker keeps no visited set, so it
\* enters the folder again at every level and the walk does not return the
\* summary unless a remote call fails; the depth of calls grows until the
\* interpreter ends the walk with RecursionError.
C12_CycleNeverReturns == (WalkReturned(1) => faults > 0)

C12_CycleReachesLimit ==
    (Walking(1) /\ ~WalkEnded(1)) ~> (WalkEnded(1) /\ (raised \/ faults > 0))

-----------------------------------------------------------------------------
(* Claims about the materials loop of download_single_course                *)

\* The loop is done with the material it was at.
MaterialEnds ==
    /\ InCourse("attachments")
    /\ cstate.atts = <<>>
    /\ cstate'.spc = "each"

\* download_recursive was invoked for the material in this download of the
\* course, or failed_downloads of the course has an entry for it.
WalkedFor(m) ==
    \E w \in DOMAIN clog.walks :
        /\ clog.walks[w].entry = Len(clog.entered)
        /\ clog.walks[w].course = cstate.course
        /\ clog.walks[w].mid = m

RecordedFor(m) ==
    \E k \in DOMAIN cstate.course_summary.failed_downloads :
        /\ cstate.course_summary.failed_downloads[k].label = "material"
        /\ cstate.course_summary.failed_downloads[k].node = m

\* C13: when the loop is done with a material, whatever its shape, at
\* least one call of download_recursive was made for it or at least one
\* entry for it was appended to the course's failed_downloads.
C13_NoMaterialDropped ==
    [][MaterialEnds => (WalkedFor(cstate.mid) \/ RecordedFor(cstate.mid))]_vars

-----------------------------------------------------------------------------
(* Claims about the accounting of download_recursive                        *)

IsPrefix(s, u) == Len(s) <= Len(u) /\ SubSeq(u, 1, Len(s)) = s

\* A step of a walk in progress leaves the counters and the failure list as
\* they are or grows them.
NeverDecreases ==
    stack # <<>> =>
        /\ summary'.total_folders >= summary.total_folders
        /\ summary'.total_files >= summary.total_files
        /\ IsPrefix(summary.failed_downloads, summary'.failed_downloads)

\* The calls of download_recursive of the current run: the nodes visited.
Visits == { i \in DOMAIN fetches : fetches[i].run = run }

ListingFailed ==
    \E k \in DOMAIN FailedList : FailedList[k].label = "name"

\* What the visit of a node has added to each part of the summary.
AsFolder(i) ==
    IF fetches[i].got = "ok" /\ drive.mime[fetches[i].node] = FolderMime
    THEN 1 ELSE 0

AsFile(i) ==
    Cardinality({ j \in DOMAIN finished :
                    finished[j].run = run /\ finished[j].node = fetches[i].node })

AsFailure(i) ==
    Cardinality({ k \in DOMAIN FailedList :
                    FailedList[k].node = fetches[i].node })

FoldersVisited ==
    Cardinality({ i \in Visits : AsFolder(i) = 1 })
FilesDownloaded ==
    Cardinality({ j \in DOMAIN finished : finished[j].run = run })

\* The walk of the current run has returned and no child listing failed.
CleanReturn == WalkReturned(run) /\ ~ListingFailed

Accounted ==
    CleanReturn =>
        /\ \A i \in Visits : AsFolder(i) + AsFile(i) + AsFailure(i) = 1
        /\ summary.total_folders = FoldersVisited
        /\ summary.total_files = FilesDownloaded
        /\ summary.total_folders + summary.total_files + Len(FailedList)
              = Cardinality(Visits)

\* C14: during a walk the counters and the failure list never decrease, and
\* when a walk in which every child listing succeeded returns, every node
\* visited has added exactly one of: 1 to total_folders, 1 to total_files,
\* one entry to failed_downloads; so the three add up to the number of
\* nodes visited.
C14_Accounting == [][NeverDecreases]_vars /\ []Accounted

\* C14 witness: a walk returned after visiting a folder, a file that was
\* downloaded and a file that failed, with no listing failure.
C14_Witness ==
    /\ CleanReturn
    /\ summary.total_folders >= 1
    /\ summary.total_files >= 1
    /\ Len(FailedList) >= 1
    /\ Cardinality(Visits) = 3
====
